---- MODULE Spec2Model ----
(***************************************************************************)
(* Model of api/index.py: the eShopCo telemetry service.                   *)
(*                                                                         *)
(* The service keeps one module-level table, telemetry_data, and answers   *)
(* POST / with per-region statistics computed by numpy on IEEE-754 binary64 *)
(* numbers and rounded by Python's round().  Because the results depend on *)
(* the binary64 rounding of every intermediate sum, the arithmetic is      *)
(* modelled bit-exactly: a binary64 value is a 53-bit significand and an   *)
(* exponent, and every operation rounds to nearest, ties to even.  The     *)
(* significands do not fit the checker's integers, so they are kept as     *)
(* little-endian sequences of 13-bit limbs.                                *)
(***************************************************************************)
EXTENDS Integers, Sequences, FiniteSets, TLC

(***************************************************************************)
(* Natural numbers of arbitrary size: little-endian sequences of limbs,    *)
(* without leading zero limbs (<< >> is 0).                                *)
(***************************************************************************)
LimbBits == 13

Base == 2^LimbBits

RECURSIVE BigNorm(_)
BigNorm(a) ==
    IF a = << >> THEN << >>
    ELSE IF a[Len(a)] = 0 THEN BigNorm(SubSeq(a, 1, Len(a) - 1))
    ELSE a

RECURSIVE BigFromInt(_)
BigFromInt(n) ==
    IF n = 0 THEN << >> ELSE <<n % Base>> \o BigFromInt(n \div Base)

RECURSIVE BigToInt(_)
BigToInt(a) ==
    IF a = << >> THEN 0 ELSE a[1] + Base * BigToInt(Tail(a))

Limb(a, i) == IF i <= Len(a) THEN a[i] ELSE 0

RECURSIVE BigAddC(_, _, _, _)
BigAddC(a, b, i, carry) ==
    IF i > Len(a) /\ i > Len(b)
    THEN (IF carry = 0 THEN << >> ELSE <<carry>>)
    ELSE LET s == Limb(a, i) + Limb(b, i) + carry
         IN  <<s % Base>> \o BigAddC(a, b, i + 1, s \div Base)

BigAdd(a, b) == BigAddC(a, b, 1, 0)

RECURSIVE BigSubC(_, _, _, _)
BigSubC(a, b, i, borrow) ==
    IF i > Len(a) THEN << >>
    ELSE LET s == Limb(a, i) - Limb(b, i) - borrow
         IN  IF s < 0 THEN <<s + Base>> \o BigSubC(a, b, i + 1, 1)
             ELSE <<s>> \o BigSubC(a, b, i + 1, 0)

\* a - b, for a >= b
BigSub(a, b) == BigNorm(BigSubC(a, b, 1, 0))

RECURSIVE BigCmpAt(_, _, _)
BigCmpAt(a, b, i) ==
    IF i = 0 THEN 0
    ELSE IF a[i] < b[i] THEN -1
    ELSE IF a[i] > b[i] THEN 1
    ELSE BigCmpAt(a, b, i - 1)

\* -1, 0 or 1 as a < b, a = b or a > b
BigCmp(a, b) ==
    IF Len(a) < Len(b) THEN -1
    ELSE IF Len(a) > Len(b) THEN 1
    ELSE BigCmpAt(a, b, Len(a))

RECURSIVE BigMulSmallC(_, _, _, _)
BigMulSmallC(a, k, i, carry) ==
    IF i > Len(a) THEN BigFromInt(carry)
    ELSE LET s == a[i] * k + carry
         IN  <<s % Base>> \o BigMulSmallC(a, k, i + 1, s \div Base)

\* a * k, for 0 <= k < 2^17
BigMulSmall(a, k) == BigNorm(BigMulSmallC(a, k, 1, 0))

RECURSIVE BigDivSmallC(_, _, _, _)
BigDivSmallC(a, d, i, rem) ==
    IF i = 0 THEN [q |-> << >>, r |-> rem]
    ELSE [BigDivSmallC(a, d, i - 1, (rem * Base + a[i]) % d)
            EXCEPT !.q = @ \o <<(rem * Base + a[i]) \div d>>]

\* quotient and remainder of a by d, for 0 < d < 2^17 (long division from
\* the most significant limb down)
BigDivSmall(a, d) ==
    LET res == BigDivSmallC(a, d, Len(a), 0)
    IN  [q |-> BigNorm(res.q), r |-> res.r]

RECURSIVE Zeros(_)
Zeros(n) == IF n = 0 THEN << >> ELSE <<0>> \o Zeros(n - 1)

\* a * 2^k
BigShl(a, k) ==
    IF a = << >> THEN << >>
    ELSE Zeros(k \div LimbBits) \o BigMulSmall(a, 2^(k % LimbBits))

\* floor(a / 2^k)
BigShr(a, k) ==
    LET drop == k \div LimbBits
    IN  IF drop >= Len(a) THEN << >>
        ELSE BigDivSmall(SubSeq(a, drop + 1, Len(a)), 2^(k % LimbBits)).q

RECURSIVE BigMulAt(_, _, _)
BigMulAt(a, b, i) ==
    IF i > Len(b) THEN << >>
    ELSE BigAdd(Zeros(i - 1) \o BigMulSmall(a, b[i]), BigMulAt(a, b, i + 1))

BigMul(a, b) == BigNorm(BigMulAt(a, b, 1))

RECURSIVE IntBitLen(_)
IntBitLen(n) == IF n = 0 THEN 0 ELSE 1 + IntBitLen(n \div 2)

BitLen(a) ==
    IF a = << >> THEN 0
    ELSE LimbBits * (Len(a) - 1) + IntBitLen(a[Len(a)])

BigIsOdd(a) == a # << >> /\ a[1] % 2 = 1

(***************************************************************************)
(* Round to nearest, ties to even: floor(a / 2^k), plus one when the       *)
(* discarded part (the low k bits, and `sticky' when the exact value lies  *)
(* strictly above a) exceeds one half, or equals it and the quotient is    *)
(* odd.                                                                    *)
(***************************************************************************)
BigOne == <<1>>

\* half is -1, 0 or 1 as the discarded low bits are below, at or above one half
RoundsUp(q, half, sticky) ==
    \/ half = 1
    \/ half = 0 /\ (sticky \/ BigIsOdd(q))

\* q is floor(a / 2^k)
RoundQuotient(q, a, k, sticky) ==
    IF RoundsUp(q, BigCmp(BigShl(BigSub(a, BigShl(q, k)), 1), BigShl(BigOne, k)), sticky)
    THEN BigAdd(q, BigOne)
    ELSE q

RoundShr(a, k, sticky) ==
    IF k = 0 THEN a ELSE RoundQuotient(BigShr(a, k), a, k, sticky)

(***************************************************************************)
(* IEEE-754 binary64 values, non-negative and normal (the magnitudes of    *)
(* the telemetry are far from the subnormal and overflow ranges): the      *)
(* value of [m, e] is m * 2^e, with m of exactly 53 bits, or zero.         *)
(***************************************************************************)
Precision == 53

DZero == [m |-> << >>, e |-> 0]

\* the binary64 nearest to (a + fraction) * 2^e, where `sticky' says that
\* the fraction is not zero; a caller passing sticky supplies more than
\* Precision + 1 bits
\* r is the significand rounded to Precision bits; a carry out of the
\* rounding leaves one bit more
Renormalized(r, e) ==
    IF BitLen(r) > Precision THEN [m |-> BigShr(r, 1), e |-> e + 1]
    ELSE [m |-> r, e |-> e]

\* len is the number of bits of a
RoundBits(a, e, sticky, len) ==
    IF len <= Precision
    THEN [m |-> BigShl(a, Precision - len), e |-> e - (Precision - len)]
    ELSE Renormalized(RoundShr(a, len - Precision, sticky), e + len - Precision)

RoundToDouble(a, e, sticky) ==
    IF a = << >> THEN DZero ELSE RoundBits(a, e, sticky, BitLen(a))

Min(a, b) == IF a < b THEN a ELSE b

\* the significand of x scaled to the exponent e0 <= x.e
Aligned(x, e0) == BigShl(x.m, x.e - e0)

DAdd(x, y) ==
    IF x.m = << >> THEN y
    ELSE IF y.m = << >> THEN x
    ELSE RoundToDouble(BigAdd(Aligned(x, Min(x.e, y.e)), Aligned(y, Min(x.e, y.e))),
                       Min(x.e, y.e), FALSE)

\* -1, 0 or 1 as x < y, x = y or x > y
DCmp(x, y) ==
    IF x.m = << >> THEN (IF y.m = << >> THEN 0 ELSE -1)
    ELSE IF y.m = << >> THEN 1
    ELSE IF x.e < y.e THEN -1
    ELSE IF x.e > y.e THEN 1
    ELSE BigCmp(x.m, y.m)

\* x - y, for x >= y
DSub(x, y) ==
    IF y.m = << >> THEN x
    ELSE RoundToDouble(BigSub(Aligned(x, Min(x.e, y.e)), Aligned(y, Min(x.e, y.e))),
                       Min(x.e, y.e), FALSE)

DMul(x, y) == RoundToDouble(BigMul(x.m, y.m), x.e + y.e, FALSE)

GuardBits == 2 * LimbBits

\* x / n for an integer 0 < n < 2^13, as numpy's true_divide
\* d is the quotient and remainder of the significand
RoundDivided(d, e) == RoundToDouble(d.q, e, d.r # 0)

DDivInt(x, n) ==
    RoundDivided(BigDivSmall(BigShl(x.m, GuardBits), n), x.e - GuardBits)

\* float(n) for an integer n >= 0
DFromInt(n) == RoundToDouble(BigFromInt(n), 0, FALSE)

\* floor(x) as an integer
DFloor(x) ==
    IF x.e >= 0 THEN BigToInt(BigShl(x.m, x.e))
    ELSE BigToInt(BigShr(x.m, 0 - x.e))

(***************************************************************************)
(* Decimal numbers: [digits, places] is digits / 10^places.  The literals  *)
(* of the source and the results of round() are decimals; a literal        *)
(* denotes the binary64 nearest to it.                                     *)
(***************************************************************************)
Dec(digits, places) == [digits |-> digits, places |-> places]

LiteralBits == 6 * LimbBits

\* the float a Python literal denotes (correctly rounded)
FromDecimal(d) ==
    RoundDivided(BigDivSmall(BigShl(BigFromInt(d.digits), LiteralBits), 10^d.places),
                 0 - LiteralBits)

RECURSIVE Shortest(_)
\* the same number without trailing zeros, as repr() writes a float: 150.0
Shortest(d) ==
    IF d.places > 1 /\ d.digits % 10 = 0
    THEN Shortest(Dec(d.digits \div 10, d.places - 1))
    ELSE d

\* Python round(x, ndigits) for ndigits in 1..4: the float nearest to the
\* decimal with ndigits places that is nearest to the exact value of x, ties
\* to even; the float is named by its shortest decimal
PyRound(x, ndigits) ==
    Shortest(Dec(IF x.e >= 0
                 THEN BigToInt(BigShl(BigMulSmall(x.m, 10^ndigits), x.e))
                 ELSE BigToInt(RoundShr(BigMulSmall(x.m, 10^ndigits), 0 - x.e, FALSE)),
                 ndigits))

(***************************************************************************)
(* numpy on sequences of binary64 values.                                  *)
(***************************************************************************)
RECURSIVE SumFrom(_, _, _)
\* res += a[i], a[i+1], ... in index order
SumFrom(a, i, res) ==
    IF i > Len(a) THEN res ELSE SumFrom(a, i + 1, DAdd(res, a[i]))

Lanes == 8

RECURSIVE LaneSum(_, _, _, _)
\* lane j of the unrolled loop: a[j] + a[j + 8] + a[j + 16] + ... below `stop'
LaneSum(a, j, stop, res) ==
    IF j > stop THEN res ELSE LaneSum(a, j + Lanes, stop, DAdd(res, a[j]))

\* np.add.reduce over a contiguous float64 array of at most 128 elements:
\* numpy's pairwise summation, which below 8 elements is a plain loop and
\* otherwise keeps 8 partial sums, adds them as a tree and then adds the
\* n % 8 trailing elements one by one
Partial(a, j) == LaneSum(a, j + Lanes, Len(a) - (Len(a) % Lanes), a[j])

\* (r[j] + r[j + 1]) + (r[j + 2] + r[j + 3])
Quad(a, j) ==
    DAdd(DAdd(Partial(a, j), Partial(a, j + 1)),
         DAdd(Partial(a, j + 2), Partial(a, j + 3)))

NpSum(a) ==
    IF Len(a) < Lanes THEN SumFrom(a, 1, DZero)
    ELSE SumFrom(a, Len(a) - (Len(a) % Lanes) + 1, DAdd(Quad(a, 1), Quad(a, 5)))

\* np.mean of a non-empty list: the sum divided by the count
NpMean(a) == DDivInt(NpSum(a), Len(a))

RECURSIVE Insert(_, _)
Insert(x, sorted) ==
    IF sorted = << >> THEN <<x>>
    ELSE IF DCmp(x, Head(sorted)) <= 0 THEN <<x>> \o sorted
    ELSE <<Head(sorted)>> \o Insert(x, Tail(sorted))

RECURSIVE Sorted(_)
\* the array in ascending order (np.percentile works on a partitioned copy)
Sorted(a) == IF a = << >> THEN << >> ELSE Insert(Head(a), Sorted(Tail(a)))

DOne == DFromInt(1)

DHalf == FromDecimal(Dec(5, 1))

\* a percentile without interpolation: the lower neighbour
LerpLower(a, b, t) == a

\* numpy's _lerp: a + (b - a) * t, and b - (b - a) * (1 - t) where t >= 0.5
LerpDiff(a, b, t, diff_b_a) ==
    IF DCmp(t, DHalf) >= 0
    THEN DSub(b, DMul(diff_b_a, DSub(DOne, t)))
    ELSE DAdd(a, DMul(diff_b_a, t))

Lerp(a, b, t) == LerpDiff(a, b, t, DSub(b, a))

\* np.percentile(a, q) of a non-empty list, method "linear": the quantile is
\* q / 100, the virtual index (n - 1) * quantile; an index at or above n - 1
\* takes the last element for both neighbours (index -1, so gamma is
\* virtual - (-1))
\* previous is the index below the virtual index, next the one above
LerpAt(arr, virtual, previous) ==
    Lerp(arr[previous + 1], arr[previous + 2], DSub(virtual, DFromInt(previous)))

Quantile(arr, virtual) ==
    IF DCmp(virtual, DFromInt(Len(arr) - 1)) >= 0
    THEN Lerp(arr[Len(arr)], arr[Len(arr)], DAdd(virtual, DOne))
    ELSE LerpAt(arr, virtual, DFloor(virtual))

NpPercentile(a, q) ==
    Quantile(Sorted(a), DMul(DFromInt(Len(a) - 1), DDivInt(DFromInt(q), 100)))

\* x > t for a float x >= 0 and a Python integer t (numpy compares as floats)
DGtInt(x, t) == IF t < 0 THEN TRUE ELSE DCmp(x, DFromInt(t)) > 0

RECURSIVE CountGreaterOrEqual(_, _)
\* the count with >= in place of >
CountGreaterOrEqual(a, t) ==
    IF a = << >> THEN 0
    ELSE (IF DGtInt(Head(a), t) \/ DCmp(Head(a), DFromInt(t)) = 0 THEN 1 ELSE 0)
         + CountGreaterOrEqual(Tail(a), t)

RECURSIVE CountGreater(_, _)
\* int(np.sum(np.array(latencies) > threshold_ms))
CountGreater(a, t) ==
    IF a = << >> THEN 0
    ELSE (IF DGtInt(Head(a), t) THEN 1 ELSE 0) + CountGreater(Tail(a), t)

(***************************************************************************)
(* The data.  A record's latency_ms and uptime are written as the decimal  *)
(* literals of the source; the program holds the floats they denote        *)
(* (FromDecimal), which is what every computation below reads.             *)
(***************************************************************************)
Rec(region, latency_ms, uptime) ==
    [region |-> region, latency_ms |-> latency_ms, uptime |-> uptime]

\* the table embedded in the source
EmbeddedData == <<
    Rec("apac", Dec(13285, 2), Dec(98216, 5)),
    Rec("apac", Dec(15865, 2), Dec(98449, 5)),
    Rec("apac", Dec(21002, 2), Dec(97439, 5)),
    Rec("apac", Dec(17503, 2), Dec(9888, 4)),
    Rec("apac", Dec(15638, 2), Dec(97809, 5)),
    Rec("apac", Dec(16918, 2), Dec(98332, 5)),
    Rec("apac", Dec(16793, 2), Dec(98236, 5)),
    Rec("apac", Dec(11383, 2), Dec(98592, 5)),
    Rec("apac", Dec(17743, 2), Dec(99437, 5)),
    Rec("apac", Dec(20385, 2), Dec(99137, 5)),
    Rec("apac", Dec(21917, 2), Dec(98774, 5)),
    Rec("apac", Dec(18401, 2), Dec(99043, 5)),
    Rec("emea", Dec(21532, 2), Dec(97201, 5)),
    Rec("emea", Dec(16535, 2), Dec(98221, 5)),
    Rec("emea", Dec(11386, 2), Dec(98619, 5)),
    Rec("emea", Dec(15211, 2), Dec(98282, 5)),
    Rec("emea", Dec(18973, 2), Dec(9713, 4)),
    Rec("emea", Dec(12249, 2), Dec(97366, 5)),
    Rec("emea", Dec(18042, 2), Dec(97796, 5)),
    Rec("emea", Dec(14934, 2), Dec(98406, 5)),
    Rec("emea", Dec(19012, 2), Dec(98774, 5)),
    Rec("emea", Dec(2093, 1), Dec(98798, 5)),
    Rec("emea", Dec(19934, 2), Dec(98362, 5)),
    Rec("emea", Dec(13264, 2), Dec(9851, 4)),
    Rec("amer", Dec(13038, 2), Dec(97866, 5)),
    Rec("amer", Dec(15575, 2), Dec(97379, 5)),
    Rec("amer", Dec(20735, 2), Dec(98876, 5)),
    Rec("amer", Dec(11686, 2), Dec(97658, 5)),
    Rec("amer", Dec(14643, 2), Dec(98099, 5)),
    Rec("amer", Dec(20686, 2), Dec(9869, 4)),
    Rec("amer", Dec(17405, 2), Dec(99031, 5)),
    Rec("amer", Dec(13962, 2), Dec(97104, 5)),
    Rec("amer", Dec(13589, 2), Dec(98546, 5)),
    Rec("amer", Dec(1680, 1), Dec(98838, 5)),
    Rec("amer", Dec(11287, 2), Dec(99292, 5)),
    Rec("amer", Dec(15229, 2), Dec(98653, 5)) >>

\* other tables the loader could have produced: at most MaxData records
\* drawn from two regions and three measurements
MaxData == 2

DataRegions == {"amer", "emea"}

Samples == { <<Dec(0, 1), Dec(0, 1)>>,
             <<Dec(1000, 1), Dec(99, 2)>>,
             <<Dec(2000, 1), Dec(95, 2)>> }

Records == { Rec(r, s[1], s[2]) : r \in DataRegions, s \in Samples }

SeqsUpTo(S, n) == UNION { [1..k -> S] : k \in 0..n }

Datasets == SeqsUpTo(Records, MaxData) \cup {EmbeddedData}

(***************************************************************************)
(* Requests.  A JSON value is tagged with its type; the bodies drawn carry *)
(* JSON integers, strings and nulls, on which every pydantic version       *)
(* agrees (a null is neither an int nor a str).                            *)
(***************************************************************************)
JNull == [type |-> "null"]

JInt(n) == [type |-> "int", val |-> n]

JStr(str) == [type |-> "str", val |-> str]

JList(items) == [type |-> "list", val |-> items]

MaxRegions == 2

RegionIds == {"amer", "emea", "AMER", ""}

Thresholds == {-1, 0, 100, 150}

RegionLists == { JList([i \in DOMAIN l |-> JStr(l[i])]) : l \in SeqsUpTo(RegionIds, MaxRegions) }

Bodies ==
    [regions : RegionLists \cup {JNull, JList(<<JNull>>)},
     threshold_ms : {JInt(t) : t \in Thresholds} \cup {JNull}]

Http(method, path, body) == [method |-> method, path |-> path, body |-> body]

NoBody == [regions |-> JNull, threshold_ms |-> JNull]

Requests ==
    { Http("POST", "/", b) : b \in Bodies }
    \cup { Http("OPTIONS", "/", NoBody), Http("GET", "/", NoBody),
           Http("GET", "/health", NoBody) }

\* a model that also constrains the values: threshold_ms >= 0 and regions
\* of non-empty strings
MetricsRequestStrict(body) ==
    /\ body.regions.type = "list"
    /\ \A i \in DOMAIN body.regions.val :
          body.regions.val[i].type = "str" /\ body.regions.val[i].val # ""
    /\ body.threshold_ms.type = "int"
    /\ body.threshold_ms.val >= 0

\* class MetricsRequest: regions is a list of str, threshold_ms an int
IsListOfStr(j) ==
    /\ j.type = "list"
    /\ \A i \in DOMAIN j.val : j.val[i].type = "str"

IsInt(j) == j.type = "int"

MetricsRequestValid(body) == IsListOfStr(body.regions) /\ IsInt(body.threshold_ms)

\* the validated model handed to the handler
MetricsRequest(body) ==
    [regions      |-> [i \in DOMAIN body.regions.val |-> body.regions.val[i].val],
     threshold_ms |-> body.threshold_ms.val]

(***************************************************************************)
(* calculate_metrics.  A results dict is a function from its keys; an      *)
(* assignment to an existing key overwrites it.                            *)
(***************************************************************************)
\* [item for item in telemetry_data if item['region'] == region]
RegionData(data, region) == SelectSeq(data, LAMBDA item : item.region = region)

LatenciesOf(region_data) ==
    [i \in DOMAIN region_data |-> FromDecimal(region_data[i].latency_ms)]

UptimesOf(region_data) ==
    [i \in DOMAIN region_data |-> FromDecimal(region_data[i].uptime)]

\* numpy has no percentile of an empty list: the handler would raise
Raised == [raised |-> TRUE]

Returned(v) == [raised |-> FALSE, value |-> v]

ZeroMetrics ==
    [avg_latency |-> Dec(0, 1), p95_latency |-> Dec(0, 1),
     avg_uptime |-> Dec(0, 1), breaches |-> 0]

\* lines 90-104: the statistics of the records of one region
\* lines 94-104, on the two lists
Metrics(latencies, uptimes, threshold_ms) ==
    [avg_latency |-> PyRound(NpMean(latencies), 2),
     p95_latency |-> PyRound(NpPercentile(latencies, 95), 2),
     avg_uptime  |-> PyRound(NpMean(uptimes), 4),
     breaches    |-> CountGreater(latencies, threshold_ms)]

Statistics(region_data, threshold_ms) ==
    IF region_data = << >> THEN Raised
    ELSE Returned(Metrics(LatenciesOf(region_data), UptimesOf(region_data),
                          threshold_ms))

\* the loop body with the test for an empty region_data inverted
RegionResultInverted(data, region, threshold_ms) ==
    IF RegionData(data, region) # << >> THEN Returned(ZeroMetrics)
    ELSE Statistics(RegionData(data, region), threshold_ms)

\* the loop body without the test for an empty region_data
RegionResultUnguarded(data, region, threshold_ms) ==
    Statistics(RegionData(data, region), threshold_ms)

\* the body of the loop for one region
RegionResult(data, region, threshold_ms) ==
    IF RegionData(data, region) = << >> THEN Returned(ZeroMetrics)
    ELSE Statistics(RegionData(data, region), threshold_ms)

EmptyDict == [k \in {} |-> ZeroMetrics]

SetItem(dict, key, v) ==
    [k \in DOMAIN dict \cup {key} |-> IF k = key THEN v ELSE dict[k]]

RECURSIVE LoopSkipsEmpty(_, _, _, _, _)
\* the loop with a bare `continue' for a region without data
LoopSkipsEmpty(data, regions, threshold_ms, i, results) ==
    IF i > Len(regions) THEN Returned([regions |-> results])
    ELSE IF RegionData(data, regions[i]) = << >>
    THEN LoopSkipsEmpty(data, regions, threshold_ms, i + 1, results)
    ELSE LoopSkipsEmpty(data, regions, threshold_ms, i + 1,
            SetItem(results, regions[i],
                    Statistics(RegionData(data, regions[i]), threshold_ms).value))

RECURSIVE LoopAppends(_, _, _, _, _)
\* the loop accumulating a repeated region instead of overwriting it: the
\* second answer for a key adds its breaches to the first
LoopAppends(data, regions, threshold_ms, i, results) ==
    IF i > Len(regions) THEN Returned([regions |-> results])
    ELSE LoopAppends(data, regions, threshold_ms, i + 1,
            SetItem(results, regions[i],
                IF regions[i] \in DOMAIN results
                THEN [RegionResult(data, regions[i], threshold_ms).value
                        EXCEPT !.breaches = @ + results[regions[i]].breaches]
                ELSE RegionResult(data, regions[i], threshold_ms).value))

RECURSIVE Loop(_, _, _, _, _)
\* for region in request.regions, from index i on
RECURSIVE Iteration(_, _, _, _, _, _)
Loop(data, regions, threshold_ms, i, results) ==
    IF i > Len(regions) THEN Returned([regions |-> results])
    ELSE Iteration(data, regions, threshold_ms, i, results,
                   RegionResult(data, regions[i], threshold_ms))

\* one pass of the loop, r being what its body yields for regions[i]
Iteration(data, regions, threshold_ms, i, results, r) ==
    IF r.raised THEN Raised
    ELSE Loop(data, regions, threshold_ms, i + 1,
              SetItem(results, regions[i], r.value))

\* the handler on a validated request
Calculate(data, request) ==
    Loop(data, request.regions, request.threshold_ms, 1, EmptyDict)

(***************************************************************************)
(* The server.  Every request passes through the add_cors_headers          *)
(* middleware, which awaits the route's handler and then sets three        *)
(* headers.  The handlers contain no await, so each runs as one step of    *)
(* the event loop; requests interleave between steps.                      *)
(***************************************************************************)
VARIABLE telemetry_data  \* the module-level table

VARIABLE loaded          \* the table as it was loaded (history)

VARIABLE conn            \* per connection: position, request, response

vars == <<telemetry_data, loaded, conn>>

MaxConn == 2

Conns == 1..MaxConn

NoRequest == Http("", "", NoBody)

NoResponse == [status |-> 0, content |-> "", headers |-> {}]

Idle == [pc |-> "idle", request |-> NoRequest, response |-> NoResponse]

JSONResponse(status, content, headers) ==
    [status |-> status, content |-> content, headers |-> headers]

CorsHeaders ==
    { <<"Access-Control-Allow-Origin", "*">>,
      <<"Access-Control-Allow-Methods", "POST, GET, OPTIONS">>,
      <<"Access-Control-Allow-Headers", "Content-Type, Authorization">> }

\* response.headers[k] = v for every pair of `new'
SetHeaders(headers, new) ==
    { h \in headers : \A n \in new : n[1] # h[1] } \cup new

Routed(id, method, path) ==
    /\ conn[id].pc = "call_next"
    /\ conn[id].request.method = method
    /\ conn[id].request.path = path

Respond(id, response) ==
    /\ conn' = [conn EXCEPT ![id].pc = "responded", ![id].response = response]
    /\ UNCHANGED <<telemetry_data, loaded>>

\* the handler's answer; an unhandled exception bypasses the middleware
Answer(id, response) ==
    /\ conn' = [conn EXCEPT
                  ![id].pc = IF response.status = 500 THEN "sent" ELSE "responded",
                  ![id].response = response]
    /\ UNCHANGED <<telemetry_data, loaded>>

\* a request arrives on a free connection and add_cors_headers awaits
\* call_next(request)
Receive(id, request) ==
    /\ conn[id].pc \in {"idle", "sent"}
    /\ conn' = [conn EXCEPT ![id] = [pc |-> "call_next", request |-> request,
                                     response |-> NoResponse]]
    /\ UNCHANGED <<telemetry_data, loaded>>

\* POST / with a body that is not a MetricsRequest: FastAPI answers 422 and
\* does not call the handler
RequestValidationError(id) ==
    /\ Routed(id, "POST", "/")
    /\ ~MetricsRequestValid(conn[id].request.body)
    /\ Respond(id, JSONResponse(422, "detail", {}))

\* what POST / answers on the table `data': the handler's return value, or
\* the 500 of an unhandled exception
Serialized(r) ==
    IF r.raised THEN JSONResponse(500, "Internal Server Error", {})
    ELSE JSONResponse(200, r.value, {})

PostResponse(data, body) == Serialized(Calculate(data, MetricsRequest(body)))

\* the handler filtering the module-level table in place
calculate_metrics_rebinds(id) ==
    /\ Routed(id, "POST", "/")
    /\ MetricsRequestValid(conn[id].request.body)
    /\ LET request  == MetricsRequest(conn[id].request.body)
           response == PostResponse(telemetry_data, conn[id].request.body)
       IN  /\ conn' = [conn EXCEPT ![id].pc = "responded",
                                   ![id].response = response]
           /\ telemetry_data' =
                 IF request.regions = << >> THEN telemetry_data
                 ELSE RegionData(telemetry_data, request.regions[Len(request.regions)])
    /\ UNCHANGED loaded

calculate_metrics(id) ==
    /\ Routed(id, "POST", "/")
    /\ MetricsRequestValid(conn[id].request.body)
    /\ Answer(id, PostResponse(telemetry_data, conn[id].request.body))

options_root(id) ==
    /\ Routed(id, "OPTIONS", "/")
    /\ Respond(id, JSONResponse(200, "CORS allowed",
          { <<"Access-Control-Allow-Origin", "*">>,
            <<"Access-Control-Allow-Methods", "POST, GET, OPTIONS">>,
            <<"Access-Control-Allow-Headers", "Content-Type, Authorization">> }))

root(id) ==
    /\ Routed(id, "GET", "/")
    /\ Respond(id, JSONResponse(200, "eShopCo Telemetry API",
                                { <<"Access-Control-Allow-Origin", "*">> }))

health(id) ==
    /\ Routed(id, "GET", "/health")
    /\ Respond(id, JSONResponse(200, "healthy",
                                { <<"Access-Control-Allow-Origin", "*">> }))

\* the rest of the middleware, after call_next returned
add_cors_headers(id) ==
    /\ conn[id].pc = "responded"
    /\ conn' = [conn EXCEPT
                  ![id].pc = "sent",
                  ![id].response.headers = SetHeaders(@, CorsHeaders)]
    /\ UNCHANGED <<telemetry_data, loaded>>

\* the table is loaded when the module is imported; `loaded' remembers it
Load(datasets) ==
    /\ telemetry_data \in datasets
    /\ loaded = telemetry_data
    /\ conn = [id \in Conns |-> Idle]

Serve(ids, requests) ==
    \E id \in ids :
        \/ \E request \in requests : Receive(id, request)
        \/ RequestValidationError(id)
        \/ calculate_metrics(id)
        \/ options_root(id)
        \/ root(id)
        \/ health(id)
        \/ add_cors_headers(id)

\* one request at a time, over every table and every request
Init == Load(Datasets)

Next == Serve({1}, Requests)

Spec == Init /\ [][Next]_vars

\* concurrent requests, over the embedded table and the two-record table
\* of the specification's scenario
ScenarioData ==
    << Rec("amer", Dec(1000, 1), Dec(99, 2)), Rec("amer", Dec(2000, 1), Dec(95, 2)) >>

ConcDatasets == {EmbeddedData, ScenarioData}

Post(regions, threshold_ms) ==
    Http("POST", "/", [regions |-> regions, threshold_ms |-> threshold_ms])

ConcRequests ==
    { Post(JList(<<JStr("amer")>>), JInt(150)),
      Post(JList(<<JStr("emea"), JStr("apac")>>), JInt(-1)),
      Post(JNull, JInt(150)),
      Http("OPTIONS", "/", NoBody), Http("GET", "/", NoBody),
      Http("GET", "/health", NoBody) }

InitConc == Load(ConcDatasets)

NextConc == Serve(Conns, ConcRequests)

SpecConc == InitConc /\ [][NextConc]_vars

(***************************************************************************)
(* Properties.                                                             *)
(***************************************************************************)
\* connection id holds the answer to a POST / that passed validation
Answered(id) ==
    /\ conn[id].pc \in {"responded", "sent"}
    /\ conn[id].request.method = "POST"
    /\ conn[id].request.path = "/"
    /\ conn[id].response.status # 422

RegionsOf(id) == conn[id].request.body.regions.val

ThresholdOf(id) == conn[id].request.body.threshold_ms.val

Requested(id) == { RegionsOf(id)[i].val : i \in DOMAIN RegionsOf(id) }

Matching(data, region) == { i \in DOMAIN data : data[i].region = region }

Ok(id) == conn[id].response.status = 200

MetricsFor(id, region) == conn[id].response.content.regions[region]

\* C1: a requested region without a matching record in the table (the empty
\* table included) is answered, whatever the threshold, with avg_latency 0.0,
\* p95_latency 0.0, avg_uptime 0.0 and breaches 0, and the request succeeds
C1_UnknownRegionZero ==
    \A id \in Conns : Answered(id) =>
        \A region \in Requested(id) :
            Matching(telemetry_data, region) = {} =>
                /\ Ok(id)
                /\ region \in DOMAIN conn[id].response.content.regions
                /\ MetricsFor(id, region) =
                     [avg_latency |-> Dec(0, 1), p95_latency |-> Dec(0, 1),
                      avg_uptime |-> Dec(0, 1), breaches |-> 0]

C1_Witness ==
    \E id \in Conns :
        /\ Answered(id)
        /\ telemetry_data # << >>
        /\ ThresholdOf(id) < 0
        /\ \E region \in Requested(id) : Matching(telemetry_data, region) = {}

\* d > t for a decimal d and an integer t, exactly
DecGtInt(d, t) == d.digits > t * 10^d.places

\* C2: for a requested region with a matching record, breaches is the number
\* of its records whose latency_ms is strictly greater than threshold_ms
C2_BreachesStrictlyGreater ==
    \A id \in Conns : Answered(id) =>
        \A region \in Requested(id) :
            Matching(telemetry_data, region) # {} =>
                /\ Ok(id)
                /\ MetricsFor(id, region).breaches =
                     Cardinality({ i \in Matching(telemetry_data, region) :
                        DecGtInt(telemetry_data[i].latency_ms, ThresholdOf(id)) })

C2_Witness ==
    \E id \in Conns :
        /\ Answered(id)
        /\ \E region \in Requested(id) :
              /\ \E i \in Matching(telemetry_data, region) :
                    telemetry_data[i].latency_ms = Dec(1000, 1) /\ ThresholdOf(id) = 100
              /\ \E i \in Matching(telemetry_data, region) :
                    DecGtInt(telemetry_data[i].latency_ms, ThresholdOf(id))
              /\ MetricsFor(id, region).breaches = 1

(***************************************************************************)
(* The exact (rational) linear interpolation, computed from the decimals   *)
(* of the table and not from the floats.                                   *)
(***************************************************************************)
\* a latency of at most two decimal places, in hundredths
Hundredths(d) == d.digits * 10^(2 - d.places)

RECURSIVE InsertInt(_, _)
InsertInt(x, sorted) ==
    IF sorted = << >> THEN <<x>>
    ELSE IF x <= Head(sorted) THEN <<x>> \o sorted
    ELSE <<Head(sorted)>> \o InsertInt(x, Tail(sorted))

RECURSIVE SortedInts(_)
SortedInts(a) == IF a = << >> THEN << >> ELSE InsertInt(Head(a), SortedInts(Tail(a)))

AscendingLatencies(data, region) ==
    LET region_data == RegionData(data, region)
    IN  SortedInts([i \in DOMAIN region_data |-> Hundredths(region_data[i].latency_ms)])

\* position 0.95 * (n - 1) = floor + frac / 100, 1-based floor and ceiling
\* indices, and the interpolated value in units of 10^-4
Interpolation(asc) ==
    LET pos   == 95 * (Len(asc) - 1)
        floor == pos \div 100 + 1
        frac  == pos % 100
        ceil  == IF frac = 0 THEN floor ELSE floor + 1
    IN  [value |-> asc[floor] * 100 + (asc[ceil] - asc[floor]) * frac,
         upper |-> asc[ceil] * 100]

\* x * 10^4 and n, brought to the same power of two
Scaled(x) ==
    LET a == BigMulSmall(x.m, 10^4)
    IN  IF x.e >= 0 THEN BigShl(a, x.e) ELSE a

ScaledInt(x, n) ==
    IF x.e >= 0 THEN BigFromInt(n) ELSE BigShl(BigFromInt(n), 0 - x.e)

\* the float x is exactly n / 10^4
DEqualsExactly(x, n) == BigCmp(Scaled(x), ScaledInt(x, n)) = 0

\* |x - n / 10^4| <= bound / 10^4 / 2^40
DWithin(x, n, bound) ==
    LET a    == Scaled(x)
        b    == ScaledInt(x, n)
        dist == IF BigCmp(a, b) >= 0 THEN BigSub(a, b) ELSE BigSub(b, a)
    IN  BigCmp(BigShl(dist, 40), ScaledInt(x, bound)) <= 0

P95Of(data, region) == NpPercentile(LatenciesOf(RegionData(data, region)), 95)

AvgOf(data, region) == NpMean(LatenciesOf(RegionData(data, region)))

Alone(data, region, threshold_ms) ==
    PostResponse(data, [regions |-> JList(<<JStr(region)>>),
                        threshold_ms |-> JInt(threshold_ms)])

\* C4: the keys of the response are exactly the distinct requested regions
\* (none for an empty list, one for a region requested twice), and each
\* value is the one a request for that region alone yields
C4_KeysAreRequestedRegions ==
    \A id \in Conns : Answered(id) =>
        /\ Ok(id)
        /\ DOMAIN conn[id].response.content.regions = Requested(id)
        /\ \A region \in Requested(id) :
              MetricsFor(id, region) =
                Alone(telemetry_data, region, ThresholdOf(id)).content.regions[region]

C4_Witness ==
    \E id \in Conns :
        /\ Answered(id)
        /\ Len(RegionsOf(id)) = 2
        /\ RegionsOf(id)[1] = RegionsOf(id)[2]
        /\ Matching(telemetry_data, RegionsOf(id)[1].val) # {}
        /\ Cardinality(DOMAIN conn[id].response.content.regions) = 1

\* str.lower() on the identifiers of the model
Lower(str) == IF str = "AMER" THEN "amer" ELSE str

\* C5: matching ignores letter case: the metrics returned for a requested
\* region equal those returned for the lower-cased identifier
C5_CaseInsensitiveMatching ==
    \A id \in Conns : Answered(id) =>
        \A region \in Requested(id) :
            /\ Ok(id)
            /\ MetricsFor(id, region) =
                 Alone(telemetry_data, Lower(region), ThresholdOf(id)).content.regions[Lower(region)]

MetricsFields == {"avg_latency", "p95_latency", "avg_uptime", "breaches"}

\* a POST / whose body is a list of strings and an integer has been handled
Handled(id) ==
    /\ conn[id].pc \in {"responded", "sent"}
    /\ conn[id].request.method = "POST"
    /\ conn[id].request.path = "/"
    /\ conn[id].request.body.threshold_ms.type = "int"
    /\ conn[id].request.body.regions.type = "list"
    /\ \A i \in DOMAIN RegionsOf(id) : RegionsOf(id)[i].type = "str"

\* C6: calculate_metrics never ends in an error: whatever the table, the
\* regions (none, unknown, repeated, known and unknown together) and the
\* integer threshold, the answer is a success that holds a record of the four
\* metrics for every requested region
C6_NeverAnError ==
    \A id \in Conns : Handled(id) =>
        /\ conn[id].response.status = 200
        /\ \A region \in Requested(id) :
              /\ region \in DOMAIN conn[id].response.content.regions
              /\ DOMAIN MetricsFor(id, region) = MetricsFields

C6_Witness ==
    \E id \in Conns :
        /\ Handled(id)
        /\ ThresholdOf(id) < 0
        /\ \E region \in Requested(id) : Matching(telemetry_data, region) = {}
        /\ \E region \in Requested(id) : Matching(telemetry_data, region) # {}
        /\ conn[id].response.status = 200

\* the table with the records at positions i and i + 1 exchanged
Exchanged(data, i) ==
    [k \in DOMAIN data |-> IF k = i THEN data[i + 1]
                           ELSE IF k = i + 1 THEN data[i] ELSE data[k]]

\* C7: order independence: the answer over the table with two neighbouring
\* records exchanged (and so, over the tables of the model, over any
\* permutation) is the answer over the table
C7_OrderIndependence ==
    \A id \in Conns : Answered(id) =>
        \A i \in 1..(Len(telemetry_data) - 1) :
            PostResponse(Exchanged(telemetry_data, i), conn[id].request.body).content
                = conn[id].response.content

\* C8: the table is never modified after load, and so every POST / is
\* answered as the same request alone on the table as loaded, whatever ran
\* before it or runs beside it
C8_DatasetNeverModified ==
    /\ telemetry_data = loaded
    /\ \A id \in Conns : Answered(id) =>
          LET alone == PostResponse(loaded, conn[id].request.body)
          IN  /\ conn[id].response.status = alone.status
              /\ conn[id].response.content = alone.content

C8_Witness ==
    \E id, other \in Conns :
        /\ id # other
        /\ Answered(id)
        /\ Answered(other)
        /\ conn[id].pc = "responded"
        /\ conn[other].pc = "sent"
        /\ conn[id].request # conn[other].request

\* latency_ms >= 0 and uptime in [0, 1] for every record
InRange(data) ==
    \A i \in DOMAIN data :
        /\ data[i].latency_ms.digits >= 0
        /\ data[i].uptime.digits >= 0
        /\ data[i].uptime.digits <= 10^data[i].uptime.places

AllZero ==
    [avg_latency |-> Dec(0, 1), p95_latency |-> Dec(0, 1),
     avg_uptime |-> Dec(0, 1), breaches |-> 0]

AtLeastOneHundredth(d) == d.digits * 100 >= 10^d.places

Posted(id) ==
    /\ conn[id].pc \in {"responded", "sent"}
    /\ conn[id].request.method = "POST"
    /\ conn[id].request.path = "/"

NegativeThreshold(body) ==
    body.threshold_ms.type = "int" /\ body.threshold_ms.val < 0

EmptyRegion(body) ==
    /\ body.regions.type = "list"
    /\ \E i \in DOMAIN body.regions.val :
          body.regions.val[i].type = "str" /\ body.regions.val[i].val = ""

ClientError(status) == status \in 400..499

====
